---- MODULE Spec2Model ----
(***************************************************************************)
(* Model of app.py: the Excel-to-PDF conversion                            *)
(* (process_excel_to_pdf_cross_platform driving the PDF(FPDF) canvas) and  *)
(* the page-setup extraction (extract_page_setup_from_excel) with the      *)
(* sidebar code that consumes its result.                                  *)
(*                                                                         *)
(* Lengths on the canvas are integers in tenths of a millimetre, so that   *)
(* the Letter format (215.9 mm x 279.4 mm) stays exact.  The option        *)
(* margins are kept as the form delivers them, in steps of 0.1 cm; the     *)
(* code's "* 10" turns them into millimetres (MM scales those to the       *)
(* canvas unit).  A cell's text is represented by the number of lines      *)
(* multi_cell wraps it into at the column width (at least one: multi_cell  *)
(* always prints its last chunk, also for an empty string).  Footer text   *)
(* is a sequence of one-character strings.                                 *)
(***************************************************************************)
EXTENDS Integers, Sequences, FiniteSets, TLC

VARIABLES
    uploaded_file,   \* the upload: Corrupt, or a workbook with its sheets
    options,         \* the options dict handed to the conversion
    font_exists,     \* os.path.exists(font_path)
    pc,              \* position inside process_excel_to_pdf_cross_platform
    pdf,             \* the PDF(FPDF) object
    si, ri, ci,      \* sheet, row and cell loop indices (1-based, next to do)
    max_y,           \* the local max_y of the row loop
    result,          \* "pending", "bytes" or "none" (the return value)
    err,             \* which st.error was shown: "", "font" or "exception"
    output,          \* the serialized pages (alias resolved), once produced
    xpc,             \* position inside extract_page_setup_from_excel / sidebar
    xfile,           \* what openpyxl finds in the upload
    fail_at,         \* the extraction step that raises ("" for none)
    settings,        \* the local dict of extract_page_setup_from_excel
    extracted_settings, \* st.session_state.extracted_settings
    form             \* the initial values of the settings form

vars == <<uploaded_file, options, font_exists, pc, pdf, si, ri, ci, max_y,
          result, err, output, xpc, xfile, fail_at, settings,
          extracted_settings, form>>

convVars == <<uploaded_file, options, font_exists, pc, pdf, si, ri, ci, max_y,
              result, err, output>>

extractVars == <<xpc, xfile, fail_at, settings, extracted_settings, form>>

----------------------------------------------------------------------------
(* Bounds of the model *)

MaxSheets == 2
MaxCols == 2
MaxRows == 2
MaxLines == 2
MaxTemplateLen == 4
MaxFooterSheets == 3
MaxPlainRows == 2
MaxPlainSheets == 3

----------------------------------------------------------------------------
(* Program constants *)

\* one millimetre in canvas units
MM == 10
\* set_auto_page_break(auto=True, margin=15)
AutoBreakMargin == 15
\* FPDF's default page margin (1 cm) before the options are applied
LibDefaultMargin == 10
\* pdf.cell(0, 10, sheet_name, ...)
TitleH == 10
\* pdf.cell(col_width, 8, header, ...)
HeaderH == 8
\* pdf.multi_cell(col_width, 8, item, ...)
BodyH == 8
\* self.set_y(-15) in footer
FooterY == 15
\* self.cell(0, 10, final_footer_text, ...)
FooterH == 10

\* an upload pandas cannot read
Corrupt == [ok |-> FALSE, sheets |-> <<>>]

\* paper formats of the form's selectbox, portrait (width, height)
PaperDims(format) ==
    CASE format = "A4" -> <<2100, 2970>>
      [] format = "A3" -> <<2970, 4200>>
      [] format = "Letter" -> <<2159, 2794>>

\* orientation_map.get(options[orientation], 'P'); the form's two radio
\* values are written "portrait" and "landscape" here
OrientationCode(o) == IF o = "landscape" THEN "L" ELSE "P"

----------------------------------------------------------------------------
(* Text helpers: Python's str(int) and str.replace *)

Digits == <<"0", "1", "2", "3", "4", "5", "6", "7", "8", "9">>

RECURSIVE Str(_)
Str(n) == IF n < 10 THEN <<Digits[n + 1]>>
          ELSE Str(n \div 10) \o <<Digits[(n % 10) + 1]>>

RECURSIVE Replace(_, _, _)
Replace(s, old, new) ==
    IF Len(s) < Len(old) THEN s
    ELSE IF SubSeq(s, 1, Len(old)) = old
         THEN new \o Replace(SubSeq(s, Len(old) + 1, Len(s)), old, new)
         ELSE <<Head(s)>> \o Replace(Tail(s), old, new)

TokP == <<"&", "P">>
TokN == <<"&", "N">>
NbAlias == <<"{", "n", "b", "}">>

----------------------------------------------------------------------------
(* The canvas: class PDF(FPDF) *)

\* one drawing instruction of a page
Op(kind, sheet, row, col, line, text) ==
    [kind |-> kind, sheet |-> sheet, row |-> row, col |-> col, line |-> line,
     y |-> 0, h |-> 0, text |-> text]

\* PDF.__init__: FPDF.__init__ (page size by format and orientation, 1 cm
\* margins), footer_text, and the automatic page break 15 mm above the
\* bottom edge, which fixes page_break_trigger
NewPDF(orientation, format, footer_text) ==
    LET d == PaperDims(format)
        w == IF orientation = "L" THEN d[2] ELSE d[1]
        h == IF orientation = "L" THEN d[1] ELSE d[2]
    IN [w |-> w, h |-> h,
        t_margin |-> LibDefaultMargin * MM, l_margin |-> LibDefaultMargin * MM,
        r_margin |-> LibDefaultMargin * MM, b_margin |-> AutoBreakMargin * MM,
        page_break_trigger |-> h - AutoBreakMargin * MM,
        footer_text |-> footer_text,
        page |-> 0, y |-> 0, lasth |-> 0, pages |-> <<>>, alias |-> <<>>]

NoPDF == [w |-> 0, h |-> 0, t_margin |-> 0, l_margin |-> 0, r_margin |-> 0,
          b_margin |-> 0, page_break_trigger |-> 0, footer_text |-> <<>>,
          page |-> 0, y |-> 0, lasth |-> 0, pages |-> <<>>, alias |-> <<>>]

\* the text PDF.footer builds: '&P' becomes the page number, '&N' the alias
FooterText(template, page_no) ==
    Replace(Replace(template, TokP, Str(page_no)), TokN, NbAlias)

\* PDF.footer: 15 mm above the bottom edge, one cell 10 mm high
Footer(p) ==
    LET op == [Op("footer", 0, 0, 0, 0, FooterText(p.footer_text, p.page))
                 EXCEPT !.y = p.h - FooterY * MM, !.h = FooterH * MM]
    IN [p EXCEPT !.y = p.h - FooterY * MM,
                 !.lasth = FooterH * MM,
                 !.pages[p.page] = Append(@, op)]

\* add_page: the footer of the page being closed, then a fresh page with
\* the cursor at the top margin (PDF defines no header(), so nothing is
\* drawn on the new page)
AddPage(p) ==
    LET q == IF p.page > 0 THEN Footer(p) ELSE p
    IN [q EXCEPT !.page = @ + 1, !.pages = Append(@, <<>>), !.y = q.t_margin]

\* cell(w, h, txt, ..., ln): an automatic page break when the cell would
\* pass page_break_trigger, then the cell at the cursor; ln > 0 moves the
\* cursor below the cell
Cell(p, h, op, ln) ==
    LET q == IF p.y + h > p.page_break_trigger THEN AddPage(p) ELSE p
    IN [q EXCEPT !.pages[q.page] = Append(@, [op EXCEPT !.y = q.y, !.h = h]),
                 !.lasth = h,
                 !.y = IF ln > 0 THEN q.y + h ELSE q.y]

\* multi_cell(w, h, txt, ...): one cell(..., ln=2) per wrapped line, from
\* line k to the last
RECURSIVE MultiCellFrom(_, _, _, _, _)
MultiCellFrom(p, h, op, k, lines) ==
    IF k > lines THEN p
    ELSE MultiCellFrom(Cell(p, h, [op EXCEPT !.line = k], 2), h, op, k + 1, lines)

MultiCell(p, h, op, lines) == MultiCellFrom(p, h, op, 1, lines)

\* the header row: one cell(col_width, 8, header, 1, 0, 'C') per column
RECURSIVE HeaderCells(_, _, _, _)
HeaderCells(p, sheet, k, ncols) ==
    IF k > ncols THEN p
    ELSE HeaderCells(Cell(p, HeaderH * MM, Op("header", sheet, 0, k, 1, <<>>), 0),
                     sheet, k + 1, ncols)

\* ln(): down by the height of the last cell
Ln(p) == [p EXCEPT !.y = @ + p.lasth]

\* _putpages: the alias is replaced by the page count in every page
ResolveAlias(pages, alias, nb) ==
    [n \in 1..Len(pages) |->
        [k \in 1..Len(pages[n]) |->
            IF alias = <<>> THEN pages[n][k]
            ELSE [pages[n][k] EXCEPT !.text = Replace(@, alias, Str(nb))]]]

\* output(dest='S'): close() draws the last page's footer, then the pages
\* are written with the alias resolved
Output(p) ==
    LET q == Footer(p)
    IN ResolveAlias(q.pages, q.alias, q.page)

----------------------------------------------------------------------------
(* Inputs of the conversion *)

\* a parsed sheet (a DataFrame): its column count and, per row and column,
\* the number of lines the cell's text wraps into; a frame without columns
\* has no rows
SheetsOf(maxCols, maxRows, maxLines) ==
    {[ncols |-> 0, rows |-> <<>>]} \cup
    UNION {{[ncols |-> n, rows |-> rs] : rs \in [1..r -> [1..n -> 1..maxLines]]} :
           n \in 1..maxCols, r \in 0..maxRows}

\* a workbook holds at least one sheet
WorkbooksOf(maxSheets, sheets) ==
    {[ok |-> TRUE, sheets |-> ss] : ss \in UNION {[1..s -> sheets] : s \in 1..maxSheets}}

Files == {Corrupt} \cup WorkbooksOf(MaxSheets, SheetsOf(MaxCols, MaxRows, MaxLines))

\* workbooks of up to MaxPlainSheets sheets of one column of one-line cells
PlainFiles ==
    {Corrupt} \cup WorkbooksOf(MaxPlainSheets, SheetsOf(1, MaxPlainRows, 1))

\* workbooks of up to MaxFooterSheets sheets, each empty or of a single cell
FooterFiles ==
    {Corrupt} \cup
    WorkbooksOf(MaxFooterSheets,
                {[ncols |-> 0, rows |-> <<>>], [ncols |-> 1, rows |-> <<<<1>>>>]})

DefaultTemplate == <<"&", "P", " ", "/", " ", "&", "N">>
PageOfTemplate ==
    <<"P", "a", "g", "e", " ", "&", "P", " ", "o", "f", " ", "&", "N">>

\* margins of the form, in steps of 0.1 cm (min_value=0.5, no maximum)
TopMargins == {19, 240, 275}
BottomMargins == {15, 30}
LeftMargins == {12}
RightMargins == {12, 200}

OptionsSet ==
    [paper : {"A4", "A3", "Letter"}, orientation : {"portrait", "landscape"},
     top : TopMargins, bottom : BottomMargins,
     left : LeftMargins, right : RightMargins,
     footer : {DefaultTemplate}]

\* the same geometries with the side margins of the form's defaults
PlainOptionsSet == {o \in OptionsSet : o.right = 12}

\* footer templates: every text of up to MaxTemplateLen characters over the
\* characters of the two tokens and of the alias, and the two templates of
\* the UI and the documentation
TemplateChars == {"&", "P", "N", "{", "n", "b", "}"}
Templates ==
    UNION {[1..n -> TemplateChars] : n \in 0..MaxTemplateLen}
      \cup {DefaultTemplate, PageOfTemplate}

FooterOptionsSet ==
    [paper : {"A4"}, orientation : {"portrait"},
     top : {19, 275}, bottom : {15}, left : {12}, right : {12},
     footer : Templates]

\* the values the form shows when nothing was extracted
DefaultOptions ==
    [paper |-> "A4", orientation |-> "portrait", top |-> 19, bottom |-> 15,
     left |-> 12, right |-> 12, footer |-> DefaultTemplate]

----------------------------------------------------------------------------
(* process_excel_to_pdf_cross_platform *)

Sheet == uploaded_file.sheets[si]
NRows == Len(Sheet.rows)

\* uploaded_file.seek(0); pd.ExcelFile(...); xls.parse per sheet.  A corrupt
\* upload raises, and the except clause reports it and returns None.
Parse ==
    /\ pc = "start"
    /\ IF uploaded_file = Corrupt
       THEN /\ pc' = "done"
            /\ result' = "none"
            /\ err' = "exception"
       ELSE /\ pc' = "construct"
            /\ UNCHANGED <<result, err>>
    /\ UNCHANGED <<uploaded_file, options, font_exists, pdf, si, ri, ci, max_y,
                   output, extractVars>>

\* pdf = PDF(orientation=..., unit='mm', format=..., footer_text=...)
Construct ==
    /\ pc = "construct"
    /\ pdf' = NewPDF(OrientationCode(options.orientation), options.paper,
                     options.footer)
    /\ pc' = "font"
    /\ UNCHANGED <<uploaded_file, options, font_exists, si, ri, ci, max_y,
                   result, err, output, extractVars>>

\* if not os.path.exists(font_path): st.error(...); return None
FontMissing ==
    /\ pc = "font"
    /\ ~font_exists
    /\ err' = "font"
    /\ result' = "none"
    /\ pc' = "done"
    /\ UNCHANGED <<uploaded_file, options, font_exists, pdf, si, ri, ci, max_y,
                   output, extractVars>>

\* the four margins of the options: set_top_margin, set_left_margin and
\* set_right_margin, and a plain assignment to b_margin, which leaves
\* page_break_trigger as the constructor set it
ApplyMargins(p, o) ==
    [p EXCEPT !.t_margin = o.top * MM,
              !.b_margin = o.bottom * MM,
              !.l_margin = o.left * MM,
              !.r_margin = o.right * MM]

\* add_font, set_font, then the margins
SetUp ==
    /\ pc = "font"
    /\ font_exists
    /\ pdf' = ApplyMargins(pdf, options)
    /\ si' = 1
    /\ pc' = "sheet"
    /\ UNCHANGED <<uploaded_file, options, font_exists, ri, ci, max_y,
                   result, err, output, extractVars>>

\* (variant) a new page for a sheet only when none is open yet
SheetTitleOnOpenPage(p, sheet) ==
    Cell(IF p.page = 0 THEN AddPage(p) ELSE p, TitleH * MM,
         Op("title", sheet, 0, 0, 1, <<>>), 1)

\* the title line of a sheet: add_page, then cell(0, 10, sheet_name, 0, 1)
SheetTitle(p, sheet) ==
    Cell(AddPage(p), TitleH * MM, Op("title", sheet, 0, 0, 1, <<>>), 1)

\* the header band: the header cells, then ln()
HeaderBand(p, sheet, ncols) == Ln(HeaderCells(p, sheet, 1, ncols))

\* one turn of the sheet loop up to the row loop: a sheet without columns
\* is skipped after its title; one without rows ends after its header band
SheetStart ==
    /\ pc = "sheet"
    /\ si <= Len(uploaded_file.sheets)
    /\ LET titled == SheetTitle(pdf, si)
       IN IF Sheet.ncols = 0
          THEN /\ pdf' = titled
               /\ si' = si + 1
               /\ UNCHANGED <<pc, ri, ci>>
          ELSE /\ pdf' = HeaderBand(titled, si, Sheet.ncols)
               /\ IF NRows = 0
                  THEN /\ si' = si + 1
                       /\ UNCHANGED <<pc, ri, ci>>
                  ELSE /\ ri' = 1
                       /\ ci' = 1
                       /\ pc' = "cell"
                       /\ UNCHANGED si
    /\ UNCHANGED <<uploaded_file, options, font_exists, max_y, result, err,
                   output, extractVars>>

\* one cell of a body row: set_xy(x, pdf.get_y()) keeps the cursor where the
\* previous cell left it, multi_cell draws the lines, max_y follows the
\* cursor upwards only.  Before the first cell max_y = pdf.get_y().
DrawCell ==
    /\ pc = "cell"
    /\ LET m == IF ci = 1 THEN pdf.y ELSE max_y
           p == MultiCell(pdf, BodyH * MM, Op("body", si, ri, ci, 0, <<>>),
                          Sheet.rows[ri][ci])
       IN /\ pdf' = p
          /\ max_y' = IF p.y > m THEN p.y ELSE m
    /\ IF ci = Sheet.ncols
       THEN /\ pc' = "endrow"
            /\ UNCHANGED ci
       ELSE /\ ci' = ci + 1
            /\ UNCHANGED pc
    /\ UNCHANGED <<uploaded_file, options, font_exists, si, ri, result, err,
                   output, extractVars>>

\* pdf.set_y(max_y), then the next row, or the next sheet after the last
EndRow ==
    /\ pc = "endrow"
    /\ pdf' = [pdf EXCEPT !.y = max_y]
    /\ IF ri = NRows
       THEN /\ si' = si + 1
            /\ pc' = "sheet"
            /\ UNCHANGED <<ri, ci>>
       ELSE /\ ri' = ri + 1
            /\ ci' = 1
            /\ pc' = "cell"
            /\ UNCHANGED si
    /\ UNCHANGED <<uploaded_file, options, font_exists, max_y, result, err,
                   output, extractVars>>

\* pdf.alias_nb_pages(); return pdf.output(dest='S').encode('latin-1')
Finish ==
    /\ pc = "sheet"
    /\ si > Len(uploaded_file.sheets)
    /\ LET p == [pdf EXCEPT !.alias = NbAlias]
       IN /\ pdf' = Footer(p)
          /\ output' = Output(p)
    /\ result' = "bytes"
    /\ pc' = "done"
    /\ UNCHANGED <<uploaded_file, options, font_exists, si, ri, ci, max_y, err,
                   extractVars>>

\* the empty dict
EmptySettings == [k \in {} |-> 0]

ExtractIdle ==
    /\ xpc = "idle"
    /\ xfile = EmptySettings
    /\ fail_at = ""
    /\ settings = EmptySettings
    /\ extracted_settings = EmptySettings
    /\ form = EmptySettings

ConvStart ==
    /\ pc = "start"
    /\ pdf = NoPDF
    /\ si = 0
    /\ ri = 0
    /\ ci = 0
    /\ max_y = 0
    /\ result = "pending"
    /\ err = ""
    /\ output = <<>>

Init ==
    /\ uploaded_file \in Files
    /\ options \in OptionsSet
    /\ font_exists \in BOOLEAN
    /\ ConvStart
    /\ ExtractIdle

Next ==
    \/ Parse
    \/ Construct
    \/ FontMissing
    \/ SetUp
    \/ SheetStart
    \/ DrawCell
    \/ EndRow
    \/ Finish

Spec == Init /\ [][Next]_vars

\* the conversion over plain workbooks of more sheets
InitPlain ==
    /\ uploaded_file \in PlainFiles
    /\ options \in PlainOptionsSet
    /\ font_exists \in BOOLEAN
    /\ ConvStart
    /\ ExtractIdle

SpecPlain == InitPlain /\ [][Next]_vars

\* the conversion over the footer templates
InitFooter ==
    /\ uploaded_file \in FooterFiles
    /\ options \in FooterOptionsSet
    /\ font_exists \in BOOLEAN
    /\ ConvStart
    /\ ExtractIdle

SpecFooter == InitFooter /\ [][Next]_vars

----------------------------------------------------------------------------
(* extract_page_setup_from_excel and the sidebar that calls it *)

\* the statements of the try block, in order; each may raise
XSteps == <<"load_workbook", "page_setup", "paper", "orientation",
            "top", "bottom", "left", "right", "footer">>

\* what the worksheet's print setup holds: the paper size code, the
\* orientation keyword, the four margins in hundredths of an inch (0 for
\* an absent or zero value) and the center footer text
XFiles ==
    [paperSize : {"1", "8", "9", "0"},
     orientation : {"portrait", "landscape", "default"},
     top : {0, 75, 98}, bottom : {0, 59}, left : {0, 47}, right : {0, 47},
     footer : {<<>>, PageOfTemplate}]

\* PAPER_SIZE_MAP_REVERSE.get(ps.paperSize, 'A4')
PaperOf(code) ==
    CASE code = "1" -> "Letter"
      [] code = "8" -> "A3"
      [] code = "9" -> "A4"
      [] OTHER -> "A4"

\* ORIENTATION_MAP_REVERSE.get(ps.orientation, default portrait)
OrientationOf(o) == IF o = "landscape" THEN "landscape" ELSE "portrait"

\* round(inches * INCH_TO_CM, 1) if inches else default, in steps of 0.1 cm
\* (the inputs used have no rounding tie)
MarginOf(hundredths, default) ==
    IF hundredths = 0 THEN default
    ELSE (hundredths * 254 + 500) \div 1000

\* the center footer text if there is one, else the default template
FooterTemplateOf(text) == IF text = <<>> THEN DefaultTemplate ELSE text

\* the value a step stores under its key
Extracted(step, f) ==
    CASE step = "paper" -> PaperOf(f.paperSize)
      [] step = "orientation" -> OrientationOf(f.orientation)
      [] step = "top" -> MarginOf(f.top, 19)
      [] step = "bottom" -> MarginOf(f.bottom, 15)
      [] step = "left" -> MarginOf(f.left, 12)
      [] step = "right" -> MarginOf(f.right, 12)
      [] step = "footer" -> FooterTemplateOf(f.footer)

SettingKeys == {"paper", "orientation", "top", "bottom", "left", "right", "footer"}

TrySteps == {XSteps[i] : i \in 1..Len(XSteps)}

\* the statement after step, "return" after the last
StepAfter(step) ==
    LET i == CHOOSE k \in 1..Len(XSteps) : XSteps[k] = step
    IN IF i = Len(XSteps) THEN "return" ELSE XSteps[i + 1]

\* one statement of the try block completes; the settings statements store
\* their key
ExtractStep ==
    /\ xpc \in TrySteps
    /\ fail_at # xpc
    /\ settings' = IF xpc \in SettingKeys
                   THEN (xpc :> Extracted(xpc, xfile)) @@ settings
                   ELSE settings
    /\ xpc' = StepAfter(xpc)
    /\ UNCHANGED <<xfile, fail_at, extracted_settings, form, convVars>>

\* (variant) an except clause that hands back what was gathered so far
ExceptReturnPartial(gathered) == gathered

\* except Exception: print(...); return {}
ExceptReturn(gathered) == EmptySettings

\* a statement of the try block raises: the except clause returns, and the
\* sidebar stores the returned dict in the session state
ExtractRaise ==
    /\ xpc \in TrySteps
    /\ fail_at = xpc
    /\ extracted_settings' = ExceptReturn(settings)
    /\ xpc' = "returned"
    /\ UNCHANGED <<xfile, fail_at, settings, form, convVars>>

\* return settings, stored by the sidebar in the session state
ExtractReturn ==
    /\ xpc = "return"
    /\ extracted_settings' = settings
    /\ xpc' = "returned"
    /\ UNCHANGED <<xfile, fail_at, settings, form, convVars>>

\* defaults.get(key, default) for every field of the form
FormDefaults(defaults) ==
    [k \in SettingKeys |->
        IF k \in DOMAIN defaults THEN defaults[k] ELSE DefaultOptions[k]]

\* the sidebar builds the settings form from the session state
Sidebar ==
    /\ xpc = "returned"
    /\ form' = FormDefaults(extracted_settings)
    /\ xpc' = "form"
    /\ UNCHANGED <<xfile, fail_at, settings, extracted_settings, convVars>>

ConvIdle ==
    /\ uploaded_file = Corrupt
    /\ options = DefaultOptions
    /\ font_exists = TRUE
    /\ ConvStart

InitExtract ==
    /\ xpc = XSteps[1]
    /\ xfile \in XFiles
    /\ fail_at \in {""} \cup TrySteps
    /\ settings = EmptySettings
    /\ extracted_settings = EmptySettings
    /\ form = EmptySettings
    /\ ConvIdle

NextExtract ==
    \/ ExtractStep
    \/ ExtractRaise
    \/ ExtractReturn
    \/ Sidebar

SpecExtract == InitExtract /\ [][NextExtract]_vars

----------------------------------------------------------------------------
(* Vocabulary of the properties *)

Pages == pdf.pages
OpIds == UNION {{<<n, k>> : k \in 1..Len(Pages[n])} : n \in 1..Len(Pages)}
OpAt(nk) == Pages[nk[1]][nk[2]]

SourceCells ==
    UNION {{<<s, r, c>> : r \in 1..Len(uploaded_file.sheets[s].rows),
                          c \in 1..uploaded_file.sheets[s].ncols} :
           s \in 1..Len(uploaded_file.sheets)}

CellOps(s, r, c) ==
    {nk \in OpIds : /\ OpAt(nk).kind = "body"
                     /\ OpAt(nk).sheet = s
                     /\ OpAt(nk).row = r
                     /\ OpAt(nk).col = c}

BodyOps == {nk \in OpIds : OpAt(nk).kind = "body"}

Converted == pc = "done" /\ result = "bytes"

\* the content area of the options: paper minus margins
ContentWidth == pdf.w - options.left * MM - options.right * MM
ContentHeight == pdf.h - options.top * MM - options.bottom * MM
ValidGeometry == ContentWidth > 0 /\ ContentHeight > 0

\* the content area holds the title line, the header band and the tallest
\* row the bounds allow
RoomForRow ==
    /\ ContentWidth > 0
    /\ ContentHeight >= (TitleH + HeaderH + MaxLines * BodyH) * MM

Lines(s, r, c) == uploaded_file.sheets[s].rows[r][c]

Max(S) == CHOOSE x \in S : \A z \in S : z <= x

\* the tallest wrapped height of the cells of row r of sheet s
RowHeight(s, r) ==
    Max({Lines(s, r, c) * BodyH * MM : c \in 1..uploaded_file.sheets[s].ncols})

\* where the first line of cell (s, r, c) was drawn, and the cell's extent
CellTop(s, r, c) ==
    LET nk == CHOOSE x \in CellOps(s, r, c) : OpAt(x).line = 1 IN OpAt(nk).y
CellExtent(s, r, c) == Cardinality(CellOps(s, r, c)) * BodyH * MM

----------------------------------------------------------------------------
(* C1 *)

\* C1: in a finished conversion every body cell of the source is drawn
\* exactly once and lies wholly inside exactly one page (all of its lines on
\* the same page, within the page's height), and no other body cell is
\* drawn: drawn body cells = rows x columns, none duplicated, omitted or
\* split across a page break.
C1_EveryCellOnceOnOnePage ==
    (Converted /\ RoomForRow) =>
        /\ \A src \in SourceCells :
              LET ops == CellOps(src[1], src[2], src[3])
              IN /\ Cardinality({nk \in ops : OpAt(nk).line = 1}) = 1
                 /\ Cardinality({nk[1] : nk \in ops}) = 1
                 /\ \A nk \in ops :
                       OpAt(nk).y >= 0 /\ OpAt(nk).y + OpAt(nk).h <= pdf.h
        /\ \A nk \in BodyOps :
              <<OpAt(nk).sheet, OpAt(nk).row, OpAt(nk).col>> \in SourceCells

----------------------------------------------------------------------------
(* C2 *)

\* C2: when a body row is complete (the step that sets the cursor after it),
\* all its cells were drawn with the same top and the same height, the
\* maximum wrapped height over the row's cells, and the cursor is then at
\* row top + that height.
C2_UniformRow ==
    [][(EndRow /\ RoomForRow) =>
         LET cols == 1..Sheet.ncols
             top == CellTop(si, ri, 1)
         IN /\ \A c \in cols : CellTop(si, ri, c) = top
            /\ \A c \in cols : CellExtent(si, ri, c) = RowHeight(si, ri)
            /\ pdf'.y = top + RowHeight(si, ri)]_vars

----------------------------------------------------------------------------
(* C3 *)

\* C3: every page that carries body cells of a sheet carries that sheet's
\* header band above them, drawn before them.
C3_HeaderOnEveryBodyPage ==
    RoomForRow =>
        \A nk \in BodyOps :
            \E k \in 1..(nk[2] - 1) :
                LET hd == Pages[nk[1]][k]
                IN /\ hd.kind = "header"
                   /\ hd.sheet = OpAt(nk).sheet
                   /\ hd.y + hd.h <= OpAt(nk).y

----------------------------------------------------------------------------
(* C4 *)

\* the lowest point body content may reach under the options
BottomLimit == pdf.h - options.bottom * MM

\* the content area holds the title line, the header band and any one row
\* of the workbook
EveryRowFits ==
    /\ ContentWidth > 0
    /\ \A s \in 1..Len(uploaded_file.sheets) :
          \A r \in 1..Len(uploaded_file.sheets[s].rows) :
             ContentHeight >= (TitleH + HeaderH) * MM + RowHeight(s, r)

\* C4: the page break is taken from the configured bottom margin, so
\* nothing of a body row is ever drawn below page height - bottom margin
\* (whatever the bottom margin of the options is).
C4_NothingBelowBottomMargin ==
    EveryRowFits =>
        \A nk \in BodyOps : OpAt(nk).y + OpAt(nk).h <= BottomLimit

\* C4, the decision itself: it is taken once per row, before its first
\* cell: drawing a cell starts a new page exactly when it is the row's first
\* cell and page height - bottom margin - cursor is less than the row's
\* height; so no body line lies below page height - bottom margin.
C4_BreakAtConfiguredBottomMargin ==
    [][(DrawCell /\ RoomForRow) =>
         /\ (Len(pdf'.pages) > Len(pdf.pages)) <=>
               (ci = 1 /\ BottomLimit - pdf.y < RowHeight(si, ri))
         /\ \A n \in 1..Len(pdf'.pages) : \A k \in 1..Len(pdf'.pages[n]) :
               pdf'.pages[n][k].kind = "body" =>
                  pdf'.pages[n][k].y + pdf'.pages[n][k].h <= BottomLimit]_vars

----------------------------------------------------------------------------
(* C5 *)

\* the footer as documented: every '&P' replaced by the page number p and
\* every '&N' by the page count nb, everything else kept
RECURSIVE Substituted(_, _, _)
Substituted(s, p, nb) ==
    IF Len(s) < 2 THEN s
    ELSE IF SubSeq(s, 1, 2) = TokP
         THEN Str(p) \o Substituted(SubSeq(s, 3, Len(s)), p, nb)
         ELSE IF SubSeq(s, 1, 2) = TokN
              THEN Str(nb) \o Substituted(SubSeq(s, 3, Len(s)), p, nb)
              ELSE <<Head(s)>> \o Substituted(Tail(s), p, nb)

\* the footer text of page n of the serialized document
FooterOf(n) == output[n][Len(output[n])].text

\* C5: in the serialized document of N pages the footer of page p is the
\* template with every '&P' replaced by p and every '&N' by N and all other
\* text unchanged.
C5_FooterSubstitution ==
    Converted =>
        \A n \in 1..Len(output) :
            /\ output[n][Len(output[n])].kind = "footer"
            /\ FooterOf(n) = Substituted(options.footer, n, Len(output))

\* whether text s holds the alias of the page count
RECURSIVE HasAlias(_)
HasAlias(s) ==
    /\ Len(s) >= Len(NbAlias)
    /\ \/ SubSeq(s, 1, Len(NbAlias)) = NbAlias
       \/ HasAlias(Tail(s))

\* C5, for the templates that do not spell the alias themselves
C5_FooterSubstitutionWithoutAlias ==
    (Converted /\ ~HasAlias(options.footer)) =>
        \A n \in 1..Len(output) :
            /\ output[n][Len(output[n])].kind = "footer"
            /\ FooterOf(n) = Substituted(options.footer, n, Len(output))

\* the documented scenario: 'Page &P of &N' on three pages reads
\* 'Page 2 of 3' on page 2
C5_PageTwoOfThree ==
    (Converted /\ options.footer = PageOfTemplate /\ Len(output) = 3) =>
        FooterOf(2) = <<"P", "a", "g", "e", " ", "2", " ", "o", "f", " ", "3">>

----------------------------------------------------------------------------
(* C6 *)

\* C6: with a content width or height <= 0 (a readable workbook, the font
\* present) no page is ever added, no bytes are returned and the conversion
\* ends in the geometry error.
C6_GeometryErrorBeforeLayout ==
    (uploaded_file.ok /\ font_exists /\ pc \notin {"start", "construct"}
       /\ ~ValidGeometry) =>
        /\ pdf.page = 0
        /\ result # "bytes"
        /\ pc = "done" => err = "geometry"

----------------------------------------------------------------------------
(* C7 *)

\* C7: with the font file missing the conversion returns no bytes and
\* reports the font error, whatever the upload is.
C7_FontErrorFirst ==
    (~font_exists /\ pc = "done") => (result = "none" /\ err = "font")

----------------------------------------------------------------------------
(* C8 *)

\* C8: the extraction always returns to its caller; when a statement of it
\* raised, what the caller receives is exactly the empty dict, whatever was
\* gathered before, and the form is then built from the default options.
C8_FailureYieldsEmptySettings ==
    /\ xpc \in TrySteps \cup {"return", "returned", "form"}
    /\ (xpc \in {"returned", "form"} /\ fail_at # "") =>
          extracted_settings = EmptySettings
    /\ (xpc = "form" /\ fail_at # "") => form = DefaultOptions

\* C8 witness: the statement for the right margin raised after five settings
\* had been stored; the caller holds the empty dict and the default form
C8_Witness ==
    /\ xpc = "form"
    /\ fail_at = "right"
    /\ DOMAIN settings = {"paper", "orientation", "top", "bottom", "left"}
    /\ settings.top = 25
    /\ extracted_settings = EmptySettings
    /\ form = DefaultOptions

----------------------------------------------------------------------------
(* C9 *)

\* the sheets whose content (title, header or body) page n carries
SheetsOnPage(n) ==
    {Pages[n][k].sheet : k \in {j \in 1..Len(Pages[n]) : Pages[n][j].kind # "footer"}}

PagesOfSheet(s) == {n \in 1..Len(Pages) : s \in SheetsOnPage(n)}

Min(S) == CHOOSE x \in S : \A z \in S : x <= z

\* C9: with valid options, the first page that carries anything of a sheet
\* begins with that sheet's title line, and no page carries content of two
\* sheets; in the finished document every sheet (also one without columns)
\* has such a page, so there are at least as many pages as sheets.
C9_SheetStartsOwnPage ==
    ValidGeometry =>
        /\ \A n \in 1..Len(Pages) : Cardinality(SheetsOnPage(n)) <= 1
        /\ \A s \in 1..Len(uploaded_file.sheets) :
              /\ PagesOfSheet(s) # {} =>
                    LET first == Pages[Min(PagesOfSheet(s))][1]
                    IN first.kind = "title" /\ first.sheet = s
              /\ Converted => PagesOfSheet(s) # {}
        /\ Converted => Len(Pages) >= Len(uploaded_file.sheets)

\* the non-footer instructions of page n
Content(n) == SelectSeq(Pages[n], LAMBDA op : op.kind # "footer")

\* C9 witness: a finished document of a valid geometry in which the second
\* sheet's title opens a page although the page before it, the first sheet's
\* last, had room left for the title line, and a sheet without columns has
\* its own page
C9_Witness ==
    /\ Converted
    /\ ValidGeometry
    /\ \E s \in 1..Len(uploaded_file.sheets) :
          uploaded_file.sheets[s].ncols = 0 /\ PagesOfSheet(s) # {}
    /\ \E n \in 2..Len(Pages) :
          /\ Pages[n][1].kind = "title"
          /\ Pages[n][1].sheet = 2
          /\ LET prev == Content(n - 1)
                 last == prev[Len(prev)]
             IN /\ Len(prev) > 0
                /\ last.sheet = 1
                /\ last.y + last.h + TitleH * MM <= pdf.page_break_trigger

----------------------------------------------------------------------------
(* C10 *)

\* how far the conversion has come: the stages in order, and inside the
\* sheet loop the sheet, row and cell reached
Rank ==
    CASE pc = "start" -> 0
      [] pc = "construct" -> 1
      [] pc = "font" -> 2
      [] pc = "sheet" -> 1000 * si
      [] pc = "cell" -> 1000 * si + 10 * ri + ci
      [] pc = "endrow" -> 1000 * si + 10 * ri + 9
      [] pc = "done" -> 1000000

\* every step of the conversion advances it, and a conversion that has not
\* returned is at a statement that can be executed (one of the stages, the
\* loop indices inside the workbook): the loop ends, also with cells taller
\* than the content area
ConversionAdvances == [][Rank' > Rank]_vars
ConversionGoesOn ==
    /\ pc \in {"start", "construct", "font", "sheet", "cell", "endrow", "done"}
    /\ pc = "sheet" => si \in 1..(Len(uploaded_file.sheets) + 1)
    /\ pc \in {"cell", "endrow"} =>
          /\ si \in 1..Len(uploaded_file.sheets)
          /\ ri \in 1..NRows
          /\ ci \in 1..Sheet.ncols

\* C10: the conversion of a readable workbook ends, and a cell whose
\* wrapped height exceeds the content height is not split: all its lines
\* are on one page.
C10_TallCellOnOnePage ==
    (Converted /\ ValidGeometry) =>
        \A src \in SourceCells :
            Lines(src[1], src[2], src[3]) * BodyH * MM > ContentHeight =>
                Cardinality({nk[1] : nk \in CellOps(src[1], src[2], src[3])}) = 1

====
